---------------------------- MODULE Spec2Model ----------------------------
(***************************************************************************)
(* CNNBuilder (src/cnn/builder.py) and SimpleModel (src/cnn/simple_model.py)*)
(* as a state machine.  The builder's fields are the variables; every      *)
(* public operation is one action.  The tensor framework the builder calls *)
(* is modelled at graph-construction time: a tensor is its static shape    *)
(* and the name of the op that produced it, and each framework primitive   *)
(* either yields the tensor its shape inference yields or raises.          *)
(*                                                                         *)
(* Python values: None is the string None below, a float keep_prob is a    *)
(* number of tenths (5 is 0.5), an exception is a status other than "ok"   *)
(* together with the function that raised it.                              *)
(***************************************************************************)
EXTENDS Integers, Sequences, FiniteSets, TLC

VARIABLES top_layer, num_top_channels, is_train_phase, padding_mode,
          data_format, data_type, layer_counts, variables, history, last

vars == <<top_layer, num_top_channels, is_train_phase, padding_mode,
          data_format, data_type, layer_counts, variables, history, last>>

\* ------------------------------------------------------------------ bounds
MaxCalls == 3

\* ------------------------------------------------------- python constants
None == "<None>"
Falsy == {None, ""}
Prefixes == {"conv", "dropout", "fc", "mpool", "norm", "reshape"}
KeepProbDefault == 5
KeepProbOne == 10

\* ------------------------------------------------------------ arithmetic
RECURSIVE Product(_, _, _)
Product(s, i, j) == IF i > j THEN 1 ELSE s[i] * Product(s, i + 1, j)

Digit(d) == <<"0", "1", "2", "3", "4", "5", "6", "7", "8", "9">>[d + 1]

\* '{1:d}'.format(n) for n >= 0
RECURSIVE FormatD(_)
FormatD(n) == IF n < 10 THEN Digit(n) ELSE FormatD(n \div 10) \o Digit(n % 10)

\* '{0:s}{1:d}'.format(prefix, n)
FormatName(prefix, n) == prefix \o FormatD(n)


\* --------------------------------------------------- values and outcomes
\* a tensor of the graph: the scope and op that produced it, its static shape
Tensor(scope, op, shape) == [scope |-> scope, op |-> op, shape |-> shape]
NoTensor == Tensor("", "", <<>>)
NoVar == [kind |-> "", name |-> "", scope |-> "", shape |-> <<>>, init |-> ""]

\* the outcome of a call: a value, or an exception and the function raising it
Ok(v) == [status |-> "ok", raised_by |-> "", value |-> v]
Raise(e, by) == [status |-> e, raised_by |-> by, value |-> NoTensor]

\* one call into the framework, as the builder made it
FwCall(fn) == [fn |-> fn, name |-> "", strides |-> <<>>, ksize |-> <<>>,
               padding |-> "", data_format |-> "", keep_prob |-> 0,
               shape |-> <<>>]

Rank(t) == Len(t.shape)
NumElements(t) == Product(t.shape, 1, Len(t.shape))

\* position of an axis in a 4-D shape, stride or window vector
Axis(fmt, a) == IF fmt = "NHWC"
                THEN CASE a = "N" -> 1 [] a = "H" -> 2 [] a = "W" -> 3 [] a = "C" -> 4
                ELSE CASE a = "N" -> 1 [] a = "C" -> 2 [] a = "H" -> 3 [] a = "W" -> 4

InFormat(fmt, n, h, w, c) == IF fmt = "NHWC" THEN <<n, h, w, c>> ELSE <<n, c, h, w>>

\* the number of channels of the tensor itself
ActualChannels(t, fmt) == IF Rank(t) = 4 THEN t.shape[Axis(fmt, "C")]
                          ELSE IF Rank(t) = 0 THEN 0 ELSE t.shape[Rank(t)]

\* tf.DType.is_floating
is_floating(dt) == dt \in {"float16", "float32", "float64"}

\* ------------------------------------------------ framework, shape level
\* output extent of a windowed op along one axis; -1 where shape inference
\* rejects it (a window larger than the input without padding)
WindowedOutputSize(in, k, stride, padding) ==
    IF padding = "SAME" THEN (in + stride - 1) \div stride
    ELSE IF in < k THEN -1 ELSE (in - k + stride) \div stride

tf_nn_conv2d(input, filter, strides, padding, fmt) ==
    IF filter.kind # "Variable" THEN Raise("TypeError", "tf.nn.conv2d")
    ELSE IF Rank(input) # 4 \/ Len(filter.shape) # 4 THEN Raise("ValueError", "tf.nn.conv2d")
    ELSE IF input.shape[Axis(fmt, "C")] # filter.shape[3] THEN Raise("ValueError", "tf.nn.conv2d")
    ELSE LET oh == WindowedOutputSize(input.shape[Axis(fmt, "H")], filter.shape[1],
                                      strides[Axis(fmt, "H")], padding)
             ow == WindowedOutputSize(input.shape[Axis(fmt, "W")], filter.shape[2],
                                      strides[Axis(fmt, "W")], padding)
         IN IF oh < 0 \/ ow < 0 THEN Raise("ValueError", "tf.nn.conv2d")
            ELSE Ok(Tensor(filter.scope, "Conv2D",
                           InFormat(fmt, input.shape[1], oh, ow, filter.shape[4])))

tf_nn_bias_add(value, bias, fmt) ==
    IF bias.kind # "Variable" THEN Raise("TypeError", "tf.nn.bias_add")
    ELSE IF Len(bias.shape) # 1 \/ bias.shape[1] # ActualChannels(value, fmt)
         THEN Raise("ValueError", "tf.nn.bias_add")
    ELSE Ok([value EXCEPT !.op = "BiasAdd"])

\* tf.matmul(a, w) + biases: the leading dimensions of a are batch dimensions
tf_matmul_add(a, w, bias) ==
    IF w.kind # "Variable" THEN Raise("TypeError", "tf.matmul")
    ELSE IF Rank(a) < 2 \/ Len(w.shape) # 2 THEN Raise("ValueError", "tf.matmul")
    ELSE IF a.shape[Rank(a)] # w.shape[1] THEN Raise("ValueError", "tf.matmul")
    ELSE IF bias.kind # "Variable" THEN Raise("TypeError", "add")
    ELSE Ok(Tensor(w.scope, "add", [a.shape EXCEPT ![Rank(a)] = w.shape[2]]))

\* the window and the strides are read at the positions of the data format
tf_nn_max_pool(value, ksize, strides, padding, fmt, name) ==
    IF Rank(value) # 4 THEN Raise("ValueError", "tf.nn.max_pool")
    ELSE LET out(a) == WindowedOutputSize(value.shape[Axis(fmt, a)], ksize[Axis(fmt, a)],
                                          strides[Axis(fmt, a)], padding)
         IN IF out("H") < 0 \/ out("W") < 0 \/ out("C") < 0
            THEN Raise("ValueError", "tf.nn.max_pool")
            ELSE Ok(Tensor(name, "MaxPool",
                           InFormat(fmt, value.shape[1], out("H"), out("W"), out("C"))))

tf_nn_local_response_normalization(input, name) ==
    IF Rank(input) # 4 THEN Raise("ValueError", "tf.nn.local_response_normalization")
    ELSE Ok(Tensor(name, "LRN", input.shape))

\* keep_prob in tenths; a keep probability of 1 hands the input back
tf_nn_dropout(x, keep_prob, name) ==
    IF ~(0 < keep_prob /\ keep_prob <= 10) THEN Raise("ValueError", "tf.nn.dropout")
    ELSE IF keep_prob = 10 THEN Ok(x)
    ELSE Ok(Tensor(name, "dropout", x.shape))

tf_reshape(tensor, shape, name) ==
    LET n == Len(shape)
        unknown == {i \in 1..n : shape[i] = -1}
        known == Product([i \in 1..n |-> IF shape[i] = -1 THEN 1 ELSE shape[i]], 1, n)
        total == NumElements(tensor)
    IN IF n = 0 \/ Cardinality(unknown) > 1 \/ \E i \in 1..n : shape[i] < -1
       THEN Raise("ValueError", "tf.reshape")
       ELSE IF unknown = {}
       THEN IF known = total THEN Ok(Tensor(name, "Reshape", shape))
            ELSE Raise("ValueError", "tf.reshape")
       ELSE IF known = 0 \/ total % known # 0 THEN Raise("ValueError", "tf.reshape")
       ELSE Ok(Tensor(name, "Reshape",
                      [i \in 1..n |-> IF shape[i] = -1 THEN total \div known ELSE shape[i]]))

\* tf.get_variable inside tf.variable_scope(scope): vs is the graph's variables
tf_get_variable(vs, scope, name, shape, dt, initializer) ==
    LET full == IF scope = "" THEN name ELSE scope \o "/" \o name
    IN IF \E i \in 1..Len(shape) : shape[i] < 0 THEN Raise("ValueError", "tf.get_variable")
       ELSE IF full \in vs THEN Raise("ValueError", "tf.get_variable")
       ELSE Ok([kind |-> "Variable", name |-> full, scope |-> scope, shape |-> shape,
                init |-> initializer.kind])


\* ------------------------------------------------------ module functions
\* _activation with a table lookup that falls back to the input tensor
_activation_with_default(input_tensor, method) ==
    LET m == IF method \in Falsy THEN "linear" ELSE method
        table == [linear |-> input_tensor,
                  relu |-> [input_tensor EXCEPT !.op = "Relu"],
                  sigmoid |-> [input_tensor EXCEPT !.op = "Sigmoid"],
                  softmax |-> [input_tensor EXCEPT !.op = "Softmax"],
                  tanh |-> [input_tensor EXCEPT !.op = "Tanh"]]
    IN IF m \in DOMAIN table THEN Ok(table[m]) ELSE Ok(input_tensor)

\* _activation: every entry of the table is built, then the method looked up
_activation(input_tensor, method) ==
    LET m == IF method \in Falsy THEN "linear" ELSE method
        table == [linear |-> input_tensor,
                  relu |-> [input_tensor EXCEPT !.op = "Relu"],
                  sigmoid |-> [input_tensor EXCEPT !.op = "Sigmoid"],
                  softmax |-> [input_tensor EXCEPT !.op = "Softmax"],
                  tanh |-> [input_tensor EXCEPT !.op = "Tanh"]]
    IN IF m \in DOMAIN table THEN Ok(table[m]) ELSE Raise("KeyError", "_activation")

\* _initializer: the fans, the quotient 6 / (fan_in + fan_out), then the lookup.
\* The initializer is kept as its kind and the sum of the fans that scales it.
_initializer(shape, dt, method) ==
    LET n == Len(shape)
    IN IF n = 0 THEN Raise("IndexError", "_initializer")
       ELSE LET lead == Product(shape, 1, n - 2)
                fan_in == (IF n > 1 THEN shape[n - 1] ELSE shape[n]) * lead
                fan_out == shape[n] * lead
                m == IF method \in Falsy THEN "zeros" ELSE method
                table == [glorot_uniform |-> [kind |-> "random_uniform",
                                              fan_sum |-> fan_in + fan_out],
                          zeros |-> [kind |-> "zeros", fan_sum |-> 0]]
            IN IF fan_in + fan_out = 0 THEN Raise("ZeroDivisionError", "_initializer")
               ELSE IF m \in DOMAIN table THEN Ok(table[m])
               ELSE Raise("KeyError", "_initializer")

\* cnn_variable, called inside variable scope `scope` ("" at top level).
\* A non-floating data_type makes it RETURN the TypeError object (line 217).
cnn_variable(vs, scope, name, shape, init_method, dt) ==
    IF ~is_floating(dt)
    THEN [status |-> "ok", raised_by |-> "", variables |-> vs, fw |-> <<>>,
          value |-> [NoVar EXCEPT !.kind = "TypeError"]]
    ELSE LET i == _initializer(shape, dt, init_method)
         IN IF i.status # "ok"
            THEN [status |-> i.status, raised_by |-> i.raised_by, variables |-> vs,
                  fw |-> <<>>, value |-> NoVar]
            ELSE LET v == tf_get_variable(vs, scope, name, shape, dt, i.value)
                     call == [FwCall("tf.get_variable") EXCEPT !.name = name, !.shape = shape]
                 IN IF v.status # "ok"
                    THEN [status |-> v.status, raised_by |-> v.raised_by, variables |-> vs,
                          fw |-> <<call>>, value |-> NoVar]
                    ELSE [status |-> "ok", raised_by |-> "",
                          variables |-> vs \cup {v.value.name}, fw |-> <<call>>,
                          value |-> v.value]

\* ---------------------------------------------------------- CNNBuilder
\* the builder object, as a record b of its fields
Builder(tl, ntc, train, pad, fmt, dt, lc) ==
    [top_layer |-> tl, num_top_channels |-> ntc, is_train_phase |-> train,
     padding_mode |-> pad, data_format |-> fmt, data_type |-> dt, layer_counts |-> lc]

\* the outcome of a builder operation: the builder and the graph's variables
\* after it, the framework calls it made, and what it returned or raised
Returned(name, b, vs, fw, produced) ==
    [name |-> name, status |-> "ok", raised_by |-> "", b |-> b, variables |-> vs, fw |-> fw,
     produced |-> produced, ret_layer |-> b.top_layer, ret_channels |-> b.num_top_channels]
Raised(name, b, vs, fw, e, by) ==
    [name |-> name, status |-> e, raised_by |-> by, b |-> b, variables |-> vs, fw |-> fw,
     produced |-> NoTensor, ret_layer |-> NoTensor, ret_channels |-> 0]

\* _get_name that increments before it formats the name
_get_name_increment_first(counts, prefix) ==
    [name |-> FormatName(prefix, counts[prefix] + 1),
     layer_counts |-> [counts EXCEPT ![prefix] = counts[prefix] + 1]]

\* _get_name that forgets the increment
_get_name_no_increment(counts, prefix) ==
    [name |-> FormatName(prefix, counts[prefix]), layer_counts |-> counts]

\* _get_name: the name, and the counts after the increment
_get_name(counts, prefix) ==
    [name |-> FormatName(prefix, counts[prefix]),
     layer_counts |-> [counts EXCEPT ![prefix] = counts[prefix] + 1]]

add_layer(b, vs, layer, num_layer_channels) ==
    Returned("", [b EXCEPT !.top_layer = layer, !.num_top_channels = num_layer_channels],
             vs, <<>>, layer)

\* the last statements of convolution and of fully_connected: the activation
\* lookup, then the assignments to top_layer and num_top_channels, then return
activate_and_store(b1, name, pre_activation, fw, vs, num_out_channels, activation_method) ==
    IF pre_activation.status # "ok"
    THEN Raised(name, b1, vs, fw, pre_activation.status, pre_activation.raised_by)
    ELSE LET act == _activation(pre_activation.value, activation_method)
         IN IF act.status # "ok"
            THEN Raised(name, b1, vs, fw, act.status, act.raised_by)
            ELSE Returned(name, [b1 EXCEPT !.top_layer = act.value,
                                           !.num_top_channels = num_out_channels],
                          vs, fw, act.value)

\* convolution from the biases on (lines 89-95)
convolution_biases(b1, name, conv, fw1, vs, num_out_channels, activation_method) ==
    LET biases == cnn_variable(vs, name, "biases", <<num_out_channels>>, "zeros", b1.data_type)
    IN IF biases.status # "ok"
       THEN Raised(name, b1, biases.variables, fw1 \o biases.fw, biases.status, biases.raised_by)
       ELSE activate_and_store(
                b1, name, tf_nn_bias_add(conv, biases.value, b1.data_format),
                fw1 \o biases.fw
                    \o <<[FwCall("tf.nn.bias_add") EXCEPT !.data_format = b1.data_format]>>,
                biases.variables, num_out_channels, activation_method)

\* convolution from the strides on (lines 83-95)
convolution_conv2d(b1, name, filter, num_out_channels, vertical_stride, horizontal_stride, activation_method) ==
    LET strides0 == <<1, vertical_stride, horizontal_stride, 1>>
        strides == IF b1.data_format = "NCHW"
                   THEN <<strides0[1], strides0[4], strides0[2], strides0[3]>>
                   ELSE strides0
        conv == tf_nn_conv2d(b1.top_layer, filter.value, strides, b1.padding_mode,
                             b1.data_format)
        fw1 == filter.fw \o <<[FwCall("tf.nn.conv2d") EXCEPT !.strides = strides,
                                 !.padding = b1.padding_mode,
                                 !.data_format = b1.data_format]>>
    IN IF conv.status # "ok"
       THEN Raised(name, b1, filter.variables, fw1, conv.status, conv.raised_by)
       ELSE convolution_biases(b1, name, conv.value, fw1, filter.variables,
                               num_out_channels, activation_method)

convolution(b, vs, num_out_channels, filter_height, filter_width, vertical_stride, horizontal_stride, activation_method) ==
    LET gn == _get_name(b.layer_counts, "conv")
        b1 == [b EXCEPT !.layer_counts = gn.layer_counts]
        filter_shape == <<filter_height, filter_width, b.num_top_channels, num_out_channels>>
        filter == cnn_variable(vs, gn.name, "filter", filter_shape, "glorot_uniform",
                               b.data_type)
    IN IF filter.status # "ok"
       THEN Raised(gn.name, b1, filter.variables, filter.fw, filter.status, filter.raised_by)
       ELSE convolution_conv2d(b1, gn.name, filter, num_out_channels, vertical_stride,
                               horizontal_stride, activation_method)

\* dropout that does not store the dropped tensor in top_layer
dropout_keeps_top_layer(b, vs, keep_prob) ==
    LET gn == _get_name(b.layer_counts, "dropout")
        b1 == [b EXCEPT !.layer_counts = gn.layer_counts]
        kp == IF ~b.is_train_phase THEN KeepProbOne ELSE keep_prob
        dropped == tf_nn_dropout(b.top_layer, kp, gn.name)
        fw == <<[FwCall("tf.nn.dropout") EXCEPT !.keep_prob = kp, !.name = gn.name]>>
    IN IF dropped.status # "ok"
       THEN Raised(gn.name, b1, vs, fw, dropped.status, dropped.raised_by)
       ELSE [Returned(gn.name, b1, vs, fw, dropped.value) EXCEPT !.ret_layer = dropped.value]

\* dropout that applies keep_prob outside the training phase too
dropout_in_every_phase(b, vs, keep_prob) ==
    LET gn == _get_name(b.layer_counts, "dropout")
        b1 == [b EXCEPT !.layer_counts = gn.layer_counts]
        dropped == tf_nn_dropout(b.top_layer, keep_prob, gn.name)
        fw == <<[FwCall("tf.nn.dropout") EXCEPT !.keep_prob = keep_prob, !.name = gn.name]>>
    IN IF dropped.status # "ok"
       THEN Raised(gn.name, b1, vs, fw, dropped.status, dropped.raised_by)
       ELSE Returned(gn.name, [b1 EXCEPT !.top_layer = dropped.value], vs, fw, dropped.value)

dropout(b, vs, keep_prob) ==
    LET gn == _get_name(b.layer_counts, "dropout")
        b1 == [b EXCEPT !.layer_counts = gn.layer_counts]
        kp == IF ~b.is_train_phase THEN KeepProbOne ELSE keep_prob
        dropped == tf_nn_dropout(b.top_layer, kp, gn.name)
        fw == <<[FwCall("tf.nn.dropout") EXCEPT !.keep_prob = kp, !.name = gn.name]>>
    IN IF dropped.status # "ok"
       THEN Raised(gn.name, b1, vs, fw, dropped.status, dropped.raised_by)
       ELSE Returned(gn.name, [b1 EXCEPT !.top_layer = dropped.value], vs, fw, dropped.value)

\* fully_connected from the biases on (lines 131-137)
fully_connected_biases(b1, name, weights, num_out_channels, activation_method) ==
    LET biases == cnn_variable(weights.variables, name, "biases", <<num_out_channels>>,
                               "zeros", b1.data_type)
    IN IF biases.status # "ok"
       THEN Raised(name, b1, biases.variables, weights.fw \o biases.fw, biases.status,
                   biases.raised_by)
       ELSE activate_and_store(
                b1, name, tf_matmul_add(b1.top_layer, weights.value, biases.value),
                weights.fw \o biases.fw \o <<FwCall("tf.matmul")>>,
                biases.variables, num_out_channels, activation_method)

fully_connected(b, vs, num_out_channels, activation_method) ==
    LET gn == _get_name(b.layer_counts, "fc")
        b1 == [b EXCEPT !.layer_counts = gn.layer_counts]
        shape == <<b.num_top_channels, num_out_channels>>
        weights == cnn_variable(vs, gn.name, "weights", shape, "glorot_uniform", b.data_type)
    IN IF weights.status # "ok"
       THEN Raised(gn.name, b1, weights.variables, weights.fw, weights.status,
                   weights.raised_by)
       ELSE fully_connected_biases(b1, gn.name, weights, num_out_channels, activation_method)

max_pooling(b, vs, pool_height, pool_width, vertical_stride, horizontal_stride) ==
    LET gn == _get_name(b.layer_counts, "mpool")
        b1 == [b EXCEPT !.layer_counts = gn.layer_counts]
        window == <<1, pool_height, pool_width, 1>>
        strides == <<1, vertical_stride, horizontal_stride, 1>>
        pool == tf_nn_max_pool(b.top_layer, window, strides, b.padding_mode,
                               b.data_format, gn.name)
        fw == <<[FwCall("tf.nn.max_pool") EXCEPT !.ksize = window, !.strides = strides,
                   !.padding = b.padding_mode, !.data_format = b.data_format,
                   !.name = gn.name]>>
    IN IF pool.status # "ok"
       THEN Raised(gn.name, b1, vs, fw, pool.status, pool.raised_by)
       ELSE Returned(gn.name, [b1 EXCEPT !.top_layer = pool.value], vs, fw, pool.value)

\* normalization that takes the channel count from the last axis of its output
normalization_sets_channels(b, vs) ==
    LET gn == _get_name(b.layer_counts, "norm")
        b1 == [b EXCEPT !.layer_counts = gn.layer_counts]
        norm == tf_nn_local_response_normalization(b.top_layer, gn.name)
        fw == <<[FwCall("tf.nn.local_response_normalization") EXCEPT !.name = gn.name]>>
    IN IF norm.status # "ok"
       THEN Raised(gn.name, b1, vs, fw, norm.status, norm.raised_by)
       ELSE Returned(gn.name, [b1 EXCEPT !.top_layer = norm.value,
                                         !.num_top_channels = norm.value.shape[4]],
                     vs, fw, norm.value)

normalization(b, vs) ==
    LET gn == _get_name(b.layer_counts, "norm")
        b1 == [b EXCEPT !.layer_counts = gn.layer_counts]
        norm == tf_nn_local_response_normalization(b.top_layer, gn.name)
        fw == <<[FwCall("tf.nn.local_response_normalization") EXCEPT !.name = gn.name]>>
    IN IF norm.status # "ok"
       THEN Raised(gn.name, b1, vs, fw, norm.status, norm.raised_by)
       ELSE Returned(gn.name, [b1 EXCEPT !.top_layer = norm.value], vs, fw, norm.value)

reshape(b, vs, shape) ==
    LET gn == _get_name(b.layer_counts, "reshape")
        b1 == [b EXCEPT !.layer_counts = gn.layer_counts]
        reshaped == tf_reshape(b.top_layer, shape, gn.name)
        fw == <<[FwCall("tf.reshape") EXCEPT !.shape = shape, !.name = gn.name]>>
    IN IF reshaped.status # "ok"
       THEN Raised(gn.name, b1, vs, fw, reshaped.status, reshaped.raised_by)
       ELSE Returned(gn.name, [b1 EXCEPT !.top_layer = reshaped.value,
                                !.num_top_channels = shape[Len(shape)]],
                     vs, fw, reshaped.value)


\* ---------------------------------------------------------- SimpleModel
\* one layer call of a model: the operation and its arguments
NoArgs == [num_out |-> 0, filter |-> <<>>, strides |-> <<>>, act |-> "",
           keep_prob |-> 0, shape |-> <<>>, init |-> "", dtype |-> "", name |-> "",
           layer |-> NoTensor, batch_size |-> 0, num_classes |-> 0]
Call(op, args) == [op |-> op, args |-> args]

ConvCall(n, fh, fw, v, h, act) ==
    Call("convolution", [NoArgs EXCEPT !.num_out = n, !.filter = <<fh, fw>>,
                                       !.strides = <<v, h>>, !.act = act])
FcCall(n, act) == Call("fully_connected", [NoArgs EXCEPT !.num_out = n, !.act = act])
PoolCall(ph, pw, v, h) ==
    Call("max_pooling", [NoArgs EXCEPT !.filter = <<ph, pw>>, !.strides = <<v, h>>])
NormCall == Call("normalization", NoArgs)
DropoutCall(kp) == Call("dropout", [NoArgs EXCEPT !.keep_prob = kp])
ReshapeCall(shape) == Call("reshape", [NoArgs EXCEPT !.shape = shape])
AddLayerCall(layer, n) == Call("add_layer", [NoArgs EXCEPT !.layer = layer, !.num_out = n])

\* dispatch of a call on the builder
Apply(b, vs, c) ==
    LET a == c.args
    IN CASE c.op = "convolution" ->
              convolution(b, vs, a.num_out, a.filter[1], a.filter[2],
                          a.strides[1], a.strides[2], a.act)
         [] c.op = "fully_connected" -> fully_connected(b, vs, a.num_out, a.act)
         [] c.op = "max_pooling" ->
              max_pooling(b, vs, a.filter[1], a.filter[2], a.strides[1], a.strides[2])
         [] c.op = "normalization" -> normalization(b, vs)
         [] c.op = "dropout" -> dropout(b, vs, a.keep_prob)
         [] c.op = "reshape" -> reshape(b, vs, a.shape)
         [] c.op = "add_layer" -> add_layer(b, vs, a.layer, a.num_out)

HistoryEntry(op, r) == [op |-> op, name |-> r.name, status |-> r.status]

\* the statements of a method body in order; the first exception ends it.
\* r is the outcome of the statement before, hist the calls made so far.
RECURSIVE RunLayers(_, _, _)
RunLayers(r, hist, calls) ==
    IF calls = <<>> \/ r.status # "ok" THEN [r |-> r, history |-> hist]
    ELSE LET r1 == Apply(r.b, r.variables, Head(calls))
         IN RunLayers(r1, Append(hist, HistoryEntry(Head(calls).op, r1)), Tail(calls))

\* SimpleModel.inference: default strides 1,1 (convolution), 2,2 (max_pooling),
\* default activation 'relu'
InferenceLayers(batch_size, num_classes) ==
    << ConvCall(64, 3, 3, 1, 1, "relu"),
       ConvCall(64, 3, 3, 1, 1, "relu"),
       NormCall,
       PoolCall(3, 3, 2, 2),
       ConvCall(128, 5, 5, 1, 1, "relu"),
       NormCall,
       PoolCall(3, 3, 2, 2),
       ReshapeCall(<<batch_size, -1>>),
       FcCall(512, "relu"),
       FcCall(256, "relu"),
       FcCall(num_classes, "relu") >>

inference(b, vs, hist, batch_size, num_classes) ==
    RunLayers(Returned("", b, vs, <<>>, NoTensor), hist,
              InferenceLayers(batch_size, num_classes))

\* ------------------------------------------------------- the state machine
Self == Builder(top_layer, num_top_channels, is_train_phase, padding_mode,
                data_format, data_type, layer_counts)

\* the input images: a batch of 2 images of 32 x 32 pixels and 3 channels
InputTensor(fmt) == Tensor("", "input", InFormat(fmt, 2, 32, 32, 3))

\* CNNBuilder.__init__ on an input tensor with num_input_channels channels
Init ==
    /\ is_train_phase \in BOOLEAN
    /\ padding_mode \in {"SAME", "VALID"}
    /\ data_format \in {"NHWC", "NCHW"}
    /\ data_type \in {"float32", "int32"}
    /\ top_layer = InputTensor(data_format)
    /\ num_top_channels = 3
    /\ layer_counts = [p \in Prefixes |-> 0]
    /\ variables = {}
    /\ history = <<>>
    /\ last = [op |-> "__init__", args |-> NoArgs, status |-> "ok", raised_by |-> "",
               fw |-> <<>>, produced |-> NoTensor, ret_layer |-> NoTensor,
               ret_channels |-> 0, var |-> NoVar]

\* the builder and the graph after an operation with outcome r
Commit(r) ==
    /\ top_layer' = r.b.top_layer
    /\ num_top_channels' = r.b.num_top_channels
    /\ is_train_phase' = r.b.is_train_phase
    /\ padding_mode' = r.b.padding_mode
    /\ data_format' = r.b.data_format
    /\ data_type' = r.b.data_type
    /\ layer_counts' = r.b.layer_counts
    /\ variables' = r.variables

LastOf(c, r) == [op |-> c.op, args |-> c.args, status |-> r.status,
                 raised_by |-> r.raised_by, fw |-> r.fw, produced |-> r.produced,
                 ret_layer |-> r.ret_layer, ret_channels |-> r.ret_channels,
                 var |-> NoVar]

\* the state after call c of a builder operation ended with outcome r
Called(c, r) ==
    /\ Commit(r)
    /\ history' = Append(history, HistoryEntry(c.op, r))
    /\ last' = LastOf(c, r)

\* the arguments the calling code is taken to pass: <<num_out_channels,
\* filter_height, filter_width, vertical_stride, horizontal_stride, activation>>
ConvArgs == { <<2, 3, 3, 1, 1, "relu">>, <<1, 3, 2, 2, 3, "relu">>,
              <<2, 3, 3, 1, 1, None>>, <<1, 3, 3, 1, 1, "swish">> }
FcArgs == { <<2, "relu">>, <<1, "softmax">>, <<2, "">>, <<2, "swish">> }
\* <<pool_height, pool_width, vertical_stride, horizontal_stride>>
PoolArgs == { <<3, 3, 2, 2>>, <<2, 3, 1, 2>> }
KeepProbs == {0, KeepProbDefault, KeepProbOne}
ReshapeShapes == { <<2, -1>>, <<-1, 2>> }
\* <<shape, init_method, data_type>>
VariableArgs == { <<<<3, 2>>, "glorot_uniform", "float32">>, <<<<2>>, None, "float32">>,
                  <<<<3, 2>>, "he_normal", "float32">>, <<<<3, 2>>, "zeros", "int32">>,
                  <<<<2>>, "he_normal", "int32">> }

AddLayer ==
    \E n \in {1} :
        LET c == AddLayerCall(Tensor("", "custom", InFormat(data_format, 2, 8, 8, n)), n)
        IN /\ Len(history) < MaxCalls
           /\ Called(c, Apply(Self, variables, c))

Convolution ==
    \E a \in ConvArgs :
        LET c == ConvCall(a[1], a[2], a[3], a[4], a[5], a[6])
        IN /\ Len(history) < MaxCalls
           /\ Called(c, Apply(Self, variables, c))

Dropout ==
    \E kp \in KeepProbs :
        LET c == DropoutCall(kp)
        IN /\ Len(history) < MaxCalls
           /\ Called(c, Apply(Self, variables, c))

FullyConnected ==
    \E a \in FcArgs :
        LET c == FcCall(a[1], a[2])
        IN /\ Len(history) < MaxCalls
           /\ Called(c, Apply(Self, variables, c))

MaxPooling ==
    \E a \in PoolArgs :
        LET c == PoolCall(a[1], a[2], a[3], a[4])
        IN /\ Len(history) < MaxCalls
           /\ Called(c, Apply(Self, variables, c))

Normalization ==
    /\ Len(history) < MaxCalls
    /\ Called(NormCall, Apply(Self, variables, NormCall))

Reshape ==
    \E shape \in ReshapeShapes :
        LET c == ReshapeCall(shape)
        IN /\ Len(history) < MaxCalls
           /\ Called(c, Apply(Self, variables, c))

\* a direct call of the module function cnn_variable, outside any scope
CnnVariable ==
    \E name \in {"w"}, va \in VariableArgs :
        LET a == [NoArgs EXCEPT !.name = name, !.shape = va[1], !.init = va[2],
                                !.dtype = va[3]]
            r == cnn_variable(variables, "", name, va[1], va[2], va[3])
        IN /\ Len(history) < MaxCalls
           /\ variables' = r.variables
           /\ history' = Append(history, [op |-> "cnn_variable", name |-> "",
                                          status |-> r.status])
           /\ last' = [op |-> "cnn_variable", args |-> a, status |-> r.status,
                       raised_by |-> r.raised_by, fw |-> r.fw, produced |-> NoTensor,
                       ret_layer |-> NoTensor, ret_channels |-> 0, var |-> r.value]
           /\ UNCHANGED <<top_layer, num_top_channels, is_train_phase, padding_mode,
                          data_format, data_type, layer_counts>>

\* SimpleModel(batch_size, num_classes).inference(cnn_builder) on a fresh builder
Inference ==
    \E num_classes \in {10} :
        LET a == [NoArgs EXCEPT !.batch_size = 2, !.num_classes = num_classes]
            o == inference(Self, variables, history, 2, num_classes)
        IN /\ history = <<>>
           /\ Commit(o.r)
           /\ history' = o.history
           /\ last' = LastOf(Call("inference", a), o.r)

Next == \/ AddLayer
        \/ Convolution
        \/ Dropout
        \/ FullyConnected
        \/ MaxPooling
        \/ Normalization
        \/ Reshape
        \/ CnnVariable
        \/ Inference

Spec == Init /\ [][Next]_vars


\* ------------------------------------------------------------ properties
LayerOps == {"add_layer", "convolution", "dropout", "fully_connected",
             "max_pooling", "normalization", "reshape"}

\* the prefix an operation names its layer with ("" when it names none)
PrefixOf(op) == CASE op = "convolution" -> "conv"
                  [] op = "dropout" -> "dropout"
                  [] op = "fully_connected" -> "fc"
                  [] op = "max_pooling" -> "mpool"
                  [] op = "normalization" -> "norm"
                  [] op = "reshape" -> "reshape"
                  [] OTHER -> ""

KnownActivations == {"linear", "relu", "sigmoid", "softmax", "tanh"}
KnownInitializers == {"glorot_uniform", "zeros"}
BadActivation(m) == m \notin Falsy /\ m \notin KnownActivations
BadInitializer(m) == m \notin Falsy /\ m \notin KnownInitializers

\* the calls of the history that came before call i and used the same operation
Earlier(i) == {j \in 1..(i - 1) : history[j].op = history[i].op}
Decimal == <<"0", "1", "2", "3", "4", "5", "6", "7", "8", "9", "10", "11", "12">>

\* C1: after any sequence of operations num_top_channels is the number of
\* channels of the tensor held in top_layer.
C1_ChannelCountMatchesTensor ==
    num_top_channels = ActualChannels(top_layer, data_format)

\* C2: a layer operation that completes leaves in top_layer the layer it just
\* produced and returns the pair (top_layer, num_top_channels) of the builder
\* as it is after the call.
C2_ReturnsNewTopLayer ==
    (last.op \in LayerOps /\ last.status = "ok")
        => /\ top_layer = last.produced
           /\ last.ret_layer = top_layer
           /\ last.ret_channels = num_top_channels

C2_Witness ==
    /\ last.op = "dropout" /\ last.status = "ok"
    /\ top_layer.op = "dropout" /\ top_layer.scope = "dropout1"
    /\ \E i \in DOMAIN history : history[i].op = "convolution" /\ history[i].status = "ok"

\* C3: the k-th name made for a prefix is the prefix followed by the decimal
\* number k-1, and no two names made by one builder are equal.
C3_NamesAreDistinct ==
    /\ \A i \in DOMAIN history :
          history[i].op \in LayerOps \ {"add_layer"}
             => history[i].name = PrefixOf(history[i].op) \o Decimal[Cardinality(Earlier(i)) + 1]
    /\ \A i, j \in DOMAIN history :
          (i # j /\ history[i].name # "") => history[i].name # history[j].name

C3_Witness ==
    /\ Len(history) = 3
    /\ history[1].name = "conv0" /\ history[2].name = "fc0" /\ history[3].name = "conv1"

\* C4: cnn_variable called with a non-floating data_type raises a TypeError and
\* creates no variable, so a convolution or fully_connected on a builder with
\* such a data_type ends by that TypeError, before any layer op is built.
C4_NonFloatingTypeIsRejected ==
    /\ (last.op = "cnn_variable" /\ ~is_floating(last.args.dtype))
          => last.status = "TypeError"
    /\ (last.op \in {"convolution", "fully_connected"} /\ ~is_floating(data_type))
          => (last.status = "TypeError" /\ last.raised_by = "cnn_variable" /\ last.fw = <<>>)


\* the call that set `last`, and the same call with the default activation
LastCall == Call(last.op, last.args)
WithRelu(c) == [c EXCEPT !.args.act = "relu"]

\* C5 as stated, on builders with a floating data_type: a convolution or
\* fully_connected call with an unrecognized activation_method, and a
\* cnn_variable call with an unrecognized init_method, end in a lookup error.
C5_UnknownMethodIsLookupError ==
    /\ (last.op \in {"convolution", "fully_connected"} /\ BadActivation(last.args.act)
           /\ is_floating(data_type))
          => last.status = "KeyError"
    /\ (last.op = "cnn_variable" /\ BadInitializer(last.args.init)
           /\ is_floating(last.args.dtype))
          => last.status = "KeyError"

\* C5 amended: a convolution or fully_connected call with an unrecognized
\* activation_method never completes; it ends in the lookup error of _activation
\* when the same call with activation 'relu' would have completed, and in the
\* error that call would have ended in otherwise; either way top_layer and
\* num_top_channels keep their values.  A cnn_variable call with a floating
\* data_type, a shape of positive dimensions and an unrecognized init_method
\* ends in the lookup error of _initializer and creates no variable.
C5_UnknownMethodFails ==
    [][ /\ (last'.op \in {"convolution", "fully_connected"} /\ BadActivation(last'.args.act))
            => LET good == Apply(Self, variables, WithRelu(LastCall'))
               IN /\ last'.status # "ok"
                  /\ good.status = "ok"
                        => (last'.status = "KeyError" /\ last'.raised_by = "_activation")
                  /\ good.status # "ok"
                        => (last'.status = good.status /\ last'.raised_by = good.raised_by)
                  /\ top_layer' = top_layer
                  /\ num_top_channels' = num_top_channels
        /\ (last'.op = "cnn_variable" /\ BadInitializer(last'.args.init)
               /\ is_floating(last'.args.dtype))
            => /\ last'.status = "KeyError" /\ last'.raised_by = "_initializer"
               /\ variables' = variables
      ]_vars

C5_Witness ==
    /\ last.op = "convolution" /\ last.args.act = "swish"
    /\ last.status = "KeyError" /\ last.raised_by = "_activation"
    /\ top_layer.op = "MaxPool"
    /\ layer_counts["conv"] = 1

\* C6: dropout hands the framework keep probability 1.0 when the builder is
\* not in the training phase and its keep_prob argument when it is, and leaves
\* num_top_channels unchanged.
C6_DropoutOnlyInTraining ==
    [][ last'.op = "dropout"
          => /\ Len(last'.fw) = 1
             /\ last'.fw[1].fn = "tf.nn.dropout"
             /\ last'.fw[1].keep_prob = (IF is_train_phase THEN last'.args.keep_prob
                                          ELSE KeepProbOne)
             /\ num_top_channels' = num_top_channels
      ]_vars

C6_Witness ==
    /\ last.op = "dropout" /\ last.status = "ok"
    /\ ~is_train_phase
    /\ last.args.keep_prob = KeepProbDefault
    /\ last.fw[1].keep_prob = KeepProbOne
    /\ num_top_channels = 2

\* C7, on a fresh NHWC builder with a floating data_type: inference makes the
\* eleven layers conv0, conv1, norm0, mpool0, conv2, norm1, mpool1, reshape0,
\* fc0, fc1, fc2, leaves the counters conv=3, norm=2, mpool=2, reshape=1, fc=3,
\* dropout=0 and returns the channel count num_classes.
C7_InferenceBuildsElevenLayers ==
    (last.op = "inference" /\ data_format = "NHWC" /\ is_floating(data_type))
        => /\ last.status = "ok"
           /\ [i \in DOMAIN history |-> history[i].name]
                 = <<"conv0", "conv1", "norm0", "mpool0", "conv2", "norm1", "mpool1",
                     "reshape0", "fc0", "fc1", "fc2">>
           /\ layer_counts = [conv |-> 3, norm |-> 2, mpool |-> 2, reshape |-> 1,
                              fc |-> 3, dropout |-> 0]
           /\ last.ret_channels = last.args.num_classes

\* C8: the stride vector convolution hands over, and the window and stride
\* vectors max_pooling hands over, carry the vertical and horizontal values at
\* the H and W positions of the builder's data format and 1 at N and C.
C8_VectorsFollowDataFormat ==
    \A i \in DOMAIN last.fw :
        /\ (last.fw[i].fn = "tf.nn.conv2d" /\ last.op = "convolution")
              => last.fw[i].strides
                   = InFormat(data_format, 1, last.args.strides[1], last.args.strides[2], 1)
        /\ (last.fw[i].fn = "tf.nn.max_pool" /\ last.op = "max_pooling")
              => /\ last.fw[i].strides
                      = InFormat(data_format, 1, last.args.strides[1], last.args.strides[2], 1)
                 /\ last.fw[i].ksize
                      = InFormat(data_format, 1, last.args.filter[1], last.args.filter[2], 1)

\* C9: layer_counts[p] is the number of calls made so far of the operation
\* that uses prefix p, failed calls included; add_layer counts nowhere.
C9_CountsEqualCalls ==
    \A p \in Prefixes :
        layer_counts[p] = Cardinality({i \in DOMAIN history : PrefixOf(history[i].op) = p})

C9_Witness ==
    /\ Len(history) = 3
    /\ history[1].op = "convolution" /\ history[1].status = "KeyError"
    /\ history[2].op = "add_layer"
    /\ history[3].op = "convolution" /\ history[3].status = "ok"
    /\ layer_counts["conv"] = 2

\* C10: dropout, max_pooling and normalization leave num_top_channels
\* unchanged; a completed convolution or fully_connected sets it to
\* num_out_channels and add_layer to num_layer_channels; no operation changes
\* is_train_phase, padding_mode, data_format or data_type.
C10_Frame ==
    [][ /\ last'.op \in {"dropout", "max_pooling", "normalization"}
            => /\ num_top_channels' = num_top_channels
               /\ last'.status = "ok" => top_layer' = last'.produced
        /\ (last'.op \in {"convolution", "fully_connected"} /\ last'.status = "ok")
            => num_top_channels' = last'.args.num_out
        /\ last'.op = "add_layer" => num_top_channels' = last'.args.num_out
        /\ UNCHANGED <<is_train_phase, padding_mode, data_format, data_type>>
      ]_vars

C10_Witness ==
    /\ Len(history) = 3
    /\ history[1].op = "convolution" /\ history[1].status = "ok"
    /\ history[2].op = "max_pooling" /\ history[2].status = "ok"
    /\ last.op = "normalization" /\ last.status = "ok"
    /\ top_layer.op = "LRN"
    /\ num_top_channels = 1

=============================================================================
